---- MODULE Spec2Model ----
(***************************************************************************)
(* A model of textbrewer/distiller_utils.py: the training-mode context     *)
(* manager (DistillationContext), masked logit selection                   *)
(* (select_logits_with_mask), adaptor output normalisation (post_adaptor), *)
(* the probability shift (probability_shift_) and the CustomMatch          *)
(* descriptor.  Each component has its own specification; the variables of *)
(* the other components stay at their idle value.                          *)
(***************************************************************************)
EXTENDS Integers, Sequences, FiniteSets, TLC

VARIABLES
    \* ---- DistillationContext
    training,             \* heap: model object -> its .training flag
    model_T,              \* self.model_T: [kind, refs, names]
    model_S,              \* self.model_S: a model object
    model_T_is_training,  \* self.model_T_is_training (recorded flags)
    model_S_is_training,  \* self.model_S_is_training
    ctx_pc,               \* position in `with ctx: body`
    ctx_exc,              \* whether the body raised
    ctx_orig,             \* ghost: the heap immediately before __enter__
    \* ---- select_logits_with_mask
    logits_list,          \* argument: sequence of tensors [shape, data]
    masks_list,           \* argument: sequence of mask tensors
    sel_result,           \* [status, out]: the outcome of the call
    sel_pc,
    \* ---- probability_shift_
    ps_heap,              \* tensor storages: storage id -> row-major data
    ps_tensor,            \* argument: a tensor [storage, shape] on the heap
    ps_labels,            \* argument: the labels, one per row, row-major
    ps_result,            \* [status, ret]: the outcome of the call
    ps_orig,              \* ghost: the argument's data before the call
    ps_pc,
    \* ---- post_adaptor
    pa_heap,              \* mapping objects: object id -> mapping
    pa_ret,               \* the object the last call returned
    pa_prev,              \* ghost: the argument's mapping before the last call
    pa_calls,             \* number of calls made on the mapping
    pa_pc,
    \* ---- CustomMatch
    cm_obj,               \* the current descriptor's six fields
    cm_first,             \* ghost: the descriptor m as first constructed
    cm_dict,              \* the mapping last produced by to_dict
    cm_trips,             \* completed to_dict / from_dict round trips
    cm_pc

ctx_vars == <<training, model_T, model_S, model_T_is_training,
              model_S_is_training, ctx_pc, ctx_exc, ctx_orig>>

sel_vars == <<logits_list, masks_list, sel_result, sel_pc>>

ps_vars == <<ps_heap, ps_tensor, ps_labels, ps_result, ps_orig, ps_pc>>

pa_vars == <<pa_heap, pa_ret, pa_prev, pa_calls, pa_pc>>

cm_vars == <<cm_obj, cm_first, cm_dict, cm_trips, cm_pc>>

vars == <<ctx_vars, sel_vars, ps_vars, pa_vars, cm_vars>>

Idle == "idle"

Range(s) == {s[i] : i \in DOMAIN s}

\* All sequences over S of length 0..n
RECURSIVE SeqsUpTo(_, _)
SeqsUpTo(S, n) ==
    IF n = 0 THEN {<<>>}
    ELSE LET shorter == SeqsUpTo(S, n - 1)
         IN  shorter \cup {Append(s, x) : s \in {t \in shorter : Len(t) = n - 1}, x \in S}

\* the sequence <<f[1], .., f[n]>>, built element by element
RECURSIVE Tabulate(_, _)
Tabulate(f, n) == IF n = 0 THEN <<>> ELSE Append(Tabulate(f, n - 1), f[n])

Injective(s) == \A i, j \in DOMAIN s : i # j => s[i] # s[j]

(***************************************************************************)
(* DistillationContext                                                     *)
(***************************************************************************)
NumObjs == 3
MaxTeachers == 2

Objs == 1 .. NumObjs
NameIds == 1 .. MaxTeachers

\* nn.Module.eval() / nn.Module.train(mode) as used by the context manager:
\* they set the object's training flag.
Module_train(tr, o, mode) == [tr EXCEPT ![o] = mode]
Module_eval(tr, o) == Module_train(tr, o, FALSE)

IsListOrTuple(mt) == mt.kind \in {"list", "tuple"}
IsDict(mt) == mt.kind = "dict"

\* self.model_T[name] for a dict of named models
DictGet(mt, name) ==
    mt.refs[CHOOSE i \in DOMAIN mt.names : mt.names[i] = name]

\* for model_t in self.model_T: model_t.eval()    (in iteration order)
RECURSIVE EvalEach(_, _, _)
EvalEach(tr, refs, i) ==
    IF i > Len(refs) THEN tr
    ELSE EvalEach(Module_eval(tr, refs[i]), refs, i + 1)

\* __enter__, teacher part: the recorded flags
RecordTeacher(tr, mt) ==
    IF IsListOrTuple(mt) THEN [i \in DOMAIN mt.refs |-> tr[mt.refs[i]]]
    ELSE IF IsDict(mt) THEN [i \in DOMAIN mt.refs |-> <<mt.names[i], tr[mt.refs[i]]>>]
    ELSE tr[mt.refs[1]]

\* __enter__, teacher part: every teacher forced into evaluation mode
\* faulty variant: the last teacher is left in its mode
ForceTeacherSkipLast(tr, mt) ==
    IF Len(mt.refs) = 0 THEN tr
    ELSE EvalEach(tr, SubSeq(mt.refs, 1, Len(mt.refs) - 1), 1)
ForceTeacher(tr, mt) ==
    IF IsListOrTuple(mt) THEN EvalEach(tr, mt.refs, 1)
    ELSE IF IsDict(mt)
         THEN EvalEach(tr, [i \in DOMAIN mt.names |-> DictGet(mt, mt.names[i])], 1)
         ELSE Module_eval(tr, mt.refs[1])

\* __exit__, teacher part: restore the recorded flags in order
RECURSIVE RestoreList(_, _, _, _)
RestoreList(tr, mt, saved, i) ==
    IF i > Len(saved) THEN tr
    ELSE RestoreList(Module_train(tr, mt.refs[i], saved[i]), mt, saved, i + 1)

RECURSIVE RestoreDict(_, _, _, _)
RestoreDict(tr, mt, saved, i) ==
    IF i > Len(saved) THEN tr
    ELSE RestoreDict(Module_train(tr, DictGet(mt, saved[i][1]), saved[i][2]),
                     mt, saved, i + 1)

\* faulty variant: every teacher is put back into training mode
RestoreTeacherAsTrain(tr, mt, saved) ==
    IF IsListOrTuple(mt) \/ IsDict(mt)
    THEN [o \in Objs |-> IF o \in Range(mt.refs) THEN TRUE ELSE tr[o]]
    ELSE Module_train(tr, mt.refs[1], TRUE)
RestoreTeacher(tr, mt, saved) ==
    IF IsListOrTuple(mt) THEN RestoreList(tr, mt, saved, 1)
    ELSE IF IsDict(mt) THEN RestoreDict(tr, mt, saved, 1)
    ELSE Module_train(tr, mt.refs[1], saved)

TeacherConfigs ==
    {[kind |-> "single", refs |-> <<o>>, names |-> <<>>] : o \in Objs}
    \cup {[kind |-> k, refs |-> r, names |-> <<>>] :
            k \in {"list", "tuple"}, r \in SeqsUpTo(Objs, MaxTeachers)}
    \cup {[kind |-> "dict", refs |-> r, names |-> n] :
            r \in SeqsUpTo(Objs, MaxTeachers),
            n \in {m \in SeqsUpTo(NameIds, MaxTeachers) : Injective(m)}}

WellFormed(mt) == mt.kind = "dict" => Len(mt.names) = Len(mt.refs)

CtxIdle ==
    /\ training = Idle /\ model_T = Idle /\ model_S = Idle
    /\ model_T_is_training = Idle /\ model_S_is_training = Idle
    /\ ctx_pc = Idle /\ ctx_exc = Idle /\ ctx_orig = Idle

\* DistillationContext.__init__ followed by the distiller's assignment of
\* model_T and model_S; the models are in any mode.
CtxInit ==
    /\ training \in [Objs -> BOOLEAN]
    /\ model_T \in {mt \in TeacherConfigs : WellFormed(mt)}
    /\ model_S \in Objs
    /\ model_T_is_training = Idle
    /\ model_S_is_training = Idle
    /\ ctx_pc = "start"
    /\ ctx_exc = FALSE
    /\ ctx_orig = training

Enter ==
    /\ ctx_pc = "start"
    /\ LET afterT == ForceTeacher(training, model_T)
       IN  /\ model_T_is_training' = RecordTeacher(training, model_T)
           /\ model_S_is_training' = afterT[model_S]
           /\ training' = Module_train(afterT, model_S, TRUE)
    /\ ctx_orig' = training
    /\ ctx_pc' = "body"
    /\ UNCHANGED <<model_T, model_S, ctx_exc>>
    /\ UNCHANGED <<sel_vars, ps_vars, pa_vars, cm_vars>>

\* the body of the with statement completes normally (the distillation step
\* itself does not switch the models' modes)
BodyReturns ==
    /\ ctx_pc = "body"
    /\ ctx_pc' = "leaving"
    /\ ctx_exc' = FALSE
    /\ UNCHANGED <<training, model_T, model_S, model_T_is_training,
                   model_S_is_training, ctx_orig>>
    /\ UNCHANGED <<sel_vars, ps_vars, pa_vars, cm_vars>>

\* the body of the with statement raises
BodyRaises ==
    /\ ctx_pc = "body"
    /\ ctx_pc' = "leaving"
    /\ ctx_exc' = TRUE
    /\ UNCHANGED <<training, model_T, model_S, model_T_is_training,
                   model_S_is_training, ctx_orig>>
    /\ UNCHANGED <<sel_vars, ps_vars, pa_vars, cm_vars>>

Exit ==
    /\ ctx_pc = "leaving"
    /\ training' = Module_train(
                       RestoreTeacher(training, model_T, model_T_is_training),
                       model_S, model_S_is_training)
    /\ ctx_pc' = "done"
    /\ UNCHANGED <<model_T, model_S, model_T_is_training,
                   model_S_is_training, ctx_exc, ctx_orig>>
    /\ UNCHANGED <<sel_vars, ps_vars, pa_vars, cm_vars>>

Teachers == Range(model_T.refs)
Involved == Teachers \cup {model_S}
DistinctModels == Injective(model_T.refs) /\ model_S \notin Teachers

\* C1: with pairwise distinct model objects, in every teacher configuration
\* and for every combination of initial flags, after __enter__ then __exit__
\* (body returned or raised) every teacher's and the student's training flag
\* equals its value immediately before __enter__.
Thm_C1 ==
    (ctx_pc = "done" /\ DistinctModels)
        => \A o \in Involved : training[o] = ctx_orig[o]

Wit_C1 ==
    /\ ctx_pc = "done" /\ DistinctModels /\ ctx_exc = TRUE
    /\ model_T.kind = "dict" /\ Len(model_T.refs) = 2
    /\ ctx_orig[model_T.refs[1]] = TRUE /\ ctx_orig[model_T.refs[2]] = FALSE
    /\ ctx_orig[model_S] = FALSE

\* C2: with pairwise distinct model objects, between the return of __enter__
\* and the call of __exit__ every teacher is in evaluation mode and the
\* student is in training mode.
Thm_C2 ==
    (ctx_pc \in {"body", "leaving"} /\ DistinctModels)
        => /\ \A o \in Teachers : training[o] = FALSE
           /\ training[model_S] = TRUE

Wit_C2 ==
    /\ ctx_pc = "body" /\ DistinctModels
    /\ model_T.kind = "list" /\ Len(model_T.refs) = 2
    /\ ctx_orig[model_T.refs[1]] = TRUE /\ ctx_orig[model_T.refs[2]] = TRUE
    /\ ctx_orig[model_S] = FALSE

\* C10: also when model references alias (the same object twice among the
\* teachers, or a teacher that is also the student), after __enter__ then
\* __exit__ every involved object's training flag equals its value
\* immediately before __enter__.
Cex_C10 ==
    (ctx_pc = "done" /\ ~DistinctModels)
        => \A o \in Involved : training[o] = ctx_orig[o]


(***************************************************************************)
(* Tensors: [shape |-> <<d1, .., dn>>, data |-> row-major sequence]        *)
(***************************************************************************)
RECURSIVE Prod(_)
Prod(s) == IF s = <<>> THEN 1 ELSE Head(s) * Prod(Tail(s))

Numel(t) == Len(t.data)
Rank(t) == Len(t.shape)

\* stride of dimension i of a contiguous tensor of the given shape
Stride(shape, i) == Prod(SubSeq(shape, i + 1, Len(shape)))

\* 0-based multi-index of the 0-based flat offset k
Unravel(k, shape) == [i \in DOMAIN shape |-> (k \div Stride(shape, i)) % shape[i]]

RECURSIVE RavelFrom(_, _, _)
RavelFrom(idx, shape, i) ==
    IF i > Len(shape) THEN 0
    ELSE idx[i] * Stride(shape, i) + RavelFrom(idx, shape, i + 1)
Ravel(idx, shape) == RavelFrom(idx, shape, 1)

\* Tensor.unsqueeze(-1)
Unsqueeze(t) == [shape |-> Append(t.shape, 1), data |-> t.data]

\* Tensor.expand_as(other): dimensions are aligned from the right; a source
\* dimension must equal the target's or be 1, and the source may not have
\* more dimensions than the target (otherwise torch raises RuntimeError).
ExpandOk(t, shape) ==
    /\ Rank(t) <= Len(shape)
    /\ \A i \in DOMAIN t.shape :
          t.shape[i] = shape[i + Len(shape) - Rank(t)] \/ t.shape[i] = 1

ExpandAs(t, shape) ==
    LET off == Len(shape) - Rank(t)
        src(k) == LET ti == Unravel(k, shape)
                      si == [i \in DOMAIN t.shape |->
                               IF t.shape[i] = 1 THEN 0 ELSE ti[i + off]]
                  IN  Ravel(si, t.shape)
    IN  [shape |-> shape, data |-> [k \in 1 .. Prod(shape) |-> t.data[src(k - 1) + 1]]]

\* Tensor.to(mask_dtype): an integer mask becomes a boolean one
ToMaskDtype(t) == [shape |-> t.shape, data |-> [k \in DOMAIN t.data |-> t.data[k] # 0]]

\* torch.masked_select(t, mask) for a mask of t's shape: the 1-D tensor of
\* the elements of t at which the mask is true, in row-major order
RECURSIVE SelectFrom(_, _, _)
SelectFrom(data, mask, k) ==
    IF k > Len(data) THEN <<>>
    ELSE (IF mask[k] THEN <<data[k]>> ELSE <<>>) \o SelectFrom(data, mask, k + 1)

\* faulty variant: selects where the mask is false
MaskedSelectInverted(t, mask) ==
    LET d == SelectFrom(t.data, [k \in DOMAIN mask.data |-> ~mask.data[k]], 1)
    IN  [shape |-> <<Len(d)>>, data |-> d]
MaskedSelect(t, mask) ==
    LET d == SelectFrom(t.data, mask.data, 1)
    IN  [shape |-> <<Len(d)>>, data |-> d]

\* Tensor.view(-1, c)
ViewRows(t, c) == [shape |-> <<Numel(t) \div c, c>>, data |-> t.data]

\* logits.size(-1)
LastSize(t) == t.shape[Len(t.shape)]

(***************************************************************************)
(* select_logits_with_mask                                                 *)
(***************************************************************************)
MaxCells == 4       \* batch * sequence length of a batch
MaxClasses == 2
MaxList == 2

Ok(out) == [status |-> "ok", out |-> out]
Raised(err) == [status |-> err, out |-> <<>>]

\* the branch len(masks_list) == len(logits_list): masks applied pairwise
RECURSIVE SelectPairwise(_, _, _, _)
SelectPairwise(L, M, i, out) ==
    IF i > Len(L) THEN Ok(out)
    ELSE LET logits == L[i]
             mask0 == M[i]
         IN  IF Rank(logits) = 3
             THEN IF ~ExpandOk(Unsqueeze(mask0), logits.shape)
                  THEN Raised("RuntimeError")
                  ELSE LET mask == ToMaskDtype(ExpandAs(Unsqueeze(mask0), logits.shape))
                           logits_select ==
                               ViewRows(MaskedSelect(logits, mask), LastSize(logits))
                       IN  SelectPairwise(L, M, i + 1, Append(out, logits_select))
             ELSE SelectPairwise(L, M, i + 1, Append(out, logits))

\* the branch len(masks_list) == 1: `mask` is a variable of the enclosing
\* scope, reassigned by every rank-3 iteration and carried to the next one
RECURSIVE SelectBroadcast(_, _, _, _)
SelectBroadcast(L, mask0, i, out) ==
    IF i > Len(L) THEN Ok(out)
    ELSE LET logits == L[i]
         IN  IF Rank(logits) = 3
             THEN IF ~ExpandOk(Unsqueeze(mask0), logits.shape)
                  THEN Raised("RuntimeError")
                  ELSE LET mask == ToMaskDtype(ExpandAs(Unsqueeze(mask0), logits.shape))
                           logits_select ==
                               ViewRows(MaskedSelect(logits, mask), LastSize(logits))
                       IN  SelectBroadcast(L, mask, i + 1, Append(out, logits_select))
             ELSE SelectBroadcast(L, mask0, i + 1, Append(out, logits))

\* faulty variant: no branch for a single mask
select_logits_no_single_branch(L, M) ==
    IF Len(M) = Len(L) THEN SelectPairwise(L, M, 1, <<>>)
    ELSE Raised("AssertionError")
select_logits_with_mask(L, M) ==
    IF Len(M) = Len(L) THEN SelectPairwise(L, M, 1, <<>>)
    ELSE IF Len(M) = 1 THEN SelectBroadcast(L, M[1], 1, <<>>)
    ELSE Raised("AssertionError")

\* Inputs.  One batch has batch size b and sequence length s; every logits
\* tensor has c classes and is of rank 2, (b, c), or rank 3, (b, s, c); the
\* i-th tensor holds the pairwise distinct values 100 i + 1, 100 i + 2, ...
\* A mask is a 0/1 tensor of shape (b, s).
Iota(shape, i) == [shape |-> shape, data |-> [k \in 1 .. Prod(shape) |-> 100 * i + k]]

BatchShapes == {bs \in (1 .. MaxCells) \X (1 .. MaxCells) : bs[1] * bs[2] <= MaxCells}

LogitsLists(b, s, c) ==
    {[i \in DOMAIN ranks |->
         Iota(IF ranks[i] = 2 THEN <<b, c>> ELSE <<b, s, c>>, i)] :
       ranks \in SeqsUpTo({2, 3}, MaxList)}

Masks(b, s) == {[shape |-> <<b, s>>, data |-> d] : d \in [1 .. b * s -> {0, 1}]}

Invert(m) == [shape |-> m.shape, data |-> [k \in DOMAIN m.data |-> 1 - m.data[k]]]

\* mask lists over a base mask and its complement
MaskLists(b, s) ==
    UNION {SeqsUpTo({m, Invert(m)}, MaxList) : m \in Masks(b, s)}

SelIdle ==
    /\ logits_list = Idle /\ masks_list = Idle
    /\ sel_result = Idle /\ sel_pc = Idle

SelInit ==
    /\ \E bs \in BatchShapes, c \in 1 .. MaxClasses :
          /\ logits_list \in LogitsLists(bs[1], bs[2], c)
          /\ masks_list \in MaskLists(bs[1], bs[2])
    /\ sel_result = Idle
    /\ sel_pc = "call"

SelectLogits ==
    /\ sel_pc = "call"
    /\ sel_result' = select_logits_with_mask(logits_list, masks_list)
    /\ sel_pc' = "done"
    /\ UNCHANGED <<logits_list, masks_list>>
    /\ UNCHANGED <<ctx_vars, ps_vars, pa_vars, cm_vars>>

\* the 0-based (b, s) positions, flattened row-major, at which mask m is true
TruePositions(m) ==
    LET P == {k \in 0 .. Len(m.data) - 1 : m.data[k + 1] # 0}
        Nth[n \in 1 .. Cardinality(P)] ==
            CHOOSE k \in P : Cardinality({j \in P : j < k}) = n - 1
    IN  Nth

\* entry `o` holds exactly the class vectors of rank-3 tensor `t` at the
\* positions where `m` is true, in row-major order of (b, s)
IsSelection(o, t, m) ==
    LET pos == TruePositions(m)
        c == t.shape[3]
    IN  /\ o.shape = <<Len(pos), c>>
        /\ Len(o.data) = Len(pos) * c
        /\ \A j \in DOMAIN pos : \A cls \in 0 .. c - 1 :
              o.data[(j - 1) * c + cls + 1] = t.data[pos[j] * c + cls + 1]

Aligned(t, m) == Rank(t) = 3 => m.shape = SubSeq(t.shape, 1, 2)

\* C4: with len(M) = len(L) (masks aligned with the rank-3 entries), the
\* call returns len(L) entries in order: entry i is L[i] itself when L[i] has
\* rank 2, and when L[i] has rank 3 it is the rank-2 tensor of the class
\* vectors at the true positions of M[i], row-major, class dimension kept.
Thm_C4 ==
    (/\ sel_pc = "done"
     /\ Len(masks_list) = Len(logits_list)
     /\ \A i \in DOMAIN logits_list : Aligned(logits_list[i], masks_list[i]))
        => /\ sel_result.status = "ok"
           /\ Len(sel_result.out) = Len(logits_list)
           /\ \A i \in DOMAIN logits_list :
                 IF Rank(logits_list[i]) = 2
                 THEN sel_result.out[i] = logits_list[i]
                 ELSE IsSelection(sel_result.out[i], logits_list[i], masks_list[i])

Wit_C4 ==
    /\ sel_pc = "done" /\ sel_result.status = "ok"
    /\ Len(logits_list) = 2 /\ Len(masks_list) = 2
    /\ Rank(logits_list[1]) = 3 /\ Rank(logits_list[2]) = 2
    /\ logits_list[1].shape = <<2, 2, 2>>
    /\ masks_list[1].data = <<1, 0, 0, 1>>
    /\ sel_result.out[1] = [shape |-> <<2, 2>>, data |-> <<101, 102, 107, 108>>]

\* C3: with exactly one mask M (aligned with the rank-3 entries) and a logits
\* list of any length, the call succeeds and returns len(L) entries, every
\* rank-3 entry selected by M and every rank-2 entry unchanged.
Cex_C3 ==
    (/\ sel_pc = "done"
     /\ Len(masks_list) = 1
     /\ \A i \in DOMAIN logits_list : Aligned(logits_list[i], masks_list[1]))
        => /\ sel_result.status = "ok"
           /\ Len(sel_result.out) = Len(logits_list)
           /\ \A i \in DOMAIN logits_list :
                 IF Rank(logits_list[i]) = 2
                 THEN sel_result.out[i] = logits_list[i]
                 ELSE IsSelection(sel_result.out[i], logits_list[i], masks_list[1])

\* C5: the call fails with the configuration-mismatch error, returning no
\* output, exactly when len(M) # len(L) and len(M) # 1.
Thm_C5 ==
    sel_pc = "done"
        => /\ (Len(masks_list) # Len(logits_list) /\ Len(masks_list) # 1)
                => sel_result = Raised("AssertionError")
           /\ (Len(masks_list) = Len(logits_list) \/ Len(masks_list) = 1)
                => sel_result.status # "AssertionError"

Wit_C5 ==
    /\ sel_pc = "done"
    /\ Len(logits_list) = 2 /\ Len(masks_list) = 0
    /\ sel_result.status = "AssertionError"

(***************************************************************************)
(* probability_shift_                                                      *)
(* A tensor object is [storage, shape]: a view of a storage on ps_heap.    *)
(* Rows are numbered from 1; classes (columns) from 0, as label values.    *)
(***************************************************************************)
MaxRows == 2          \* batch_size (rank 2) or batch_size * length (rank 3)
MaxShiftClasses == 3
MaxVal == 2

\* tensor[r, c] of a (rows, C) view held row-major in `data`
At(data, C, r, c) == data[(r - 1) * C + c + 1]

\* tensor.argmax(dim=-1): per row, the first position of the row's maximum
ArgMaxRow(data, C, r) ==
    CHOOSE a \in 0 .. C - 1 :
        /\ \A c \in 0 .. C - 1 : At(data, C, r, a) >= At(data, C, r, c)
        /\ \A c \in 0 .. a - 1 : At(data, C, r, c) < At(data, C, r, a)

ArgMax(data, N, C) == Tabulate([r \in 1 .. N |-> ArgMaxRow(data, C, r)], N)

\* a negative index counts from the end
ResolveIndex(i, C) == IF i < 0 THEN i + C ELSE i

\* tensor[index, cols].clone() with index = arange(rows)
Gather(data, C, cols) ==
    Tabulate([r \in DOMAIN cols |-> At(data, C, r, ResolveIndex(cols[r], C))],
             Len(cols))

\* tensor[index, cols] = vals with index = arange(rows)
IndexPut(data, C, cols, vals) ==
    Tabulate([k \in DOMAIN data |->
                 LET r == ((k - 1) \div C) + 1
                     c == (k - 1) % C
                 IN  IF c = ResolveIndex(cols[r], C) THEN vals[r] ELSE data[k]],
             Len(data))

\* the exchange: both values are cloned before either is written
\* faulty variant: the second write reads the already overwritten tensor
SwapRowsNoClone(data, C, max_position, labels) ==
    LET d1 == IndexPut(data, C, max_position, Gather(data, C, labels))
    IN  IndexPut(d1, C, labels, Gather(d1, C, max_position))
SwapRows(data, C, max_position, labels) ==
    LET max_clone == Gather(data, C, max_position)
        truth_clone == Gather(data, C, labels)
        d1 == IndexPut(data, C, max_position, truth_clone)
    IN  IndexPut(d1, C, labels, max_clone)

\* torch.where(labels<0, max_position, labels)
\* faulty variant: an ignored position is treated as label 0
NonnegLabelsAsZero(labels, max_position) ==
    [r \in DOMAIN labels |-> IF labels[r] < 0 THEN 0 ELSE labels[r]]
NonnegLabels(labels, max_position) ==
    [r \in DOMAIN labels |-> IF labels[r] < 0 THEN max_position[r] ELSE labels[r]]

\* returns [status, heap after the call, returned tensor object]
probability_shift_(heap, tensor, labels) ==
    IF Len(tensor.shape) = 2
    THEN LET C == tensor.shape[2]
             N == tensor.shape[1]
             data == heap[tensor.storage]
             max_position == ArgMax(data, N, C)
         IN  [status |-> "ok",
              heap |-> [heap EXCEPT ![tensor.storage] =
                           SwapRows(data, C, max_position, labels)],
              ret |-> tensor]
    ELSE IF Len(tensor.shape) = 3
    THEN LET original_shape == tensor.shape
             C == tensor.shape[3]
             \* tensor.view(-1, C): a new tensor object on the same storage
             view == [storage |-> tensor.storage,
                      shape |-> <<tensor.shape[1] * tensor.shape[2], C>>]
             N == view.shape[1]
             data == heap[view.storage]
             max_position == ArgMax(data, N, C)
             nonneg_labels == NonnegLabels(labels, max_position)
         IN  [status |-> "ok",
              heap |-> [heap EXCEPT ![view.storage] =
                           SwapRows(data, C, max_position, nonneg_labels)],
              ret |-> [storage |-> view.storage, shape |-> original_shape]]
    ELSE [status |-> "TypeError", heap |-> heap, ret |-> Idle]

\* Inputs: rows * C values; row r is the base row rotated by r - 1 places,
\* so rows differ and attain their maxima at different classes.  Labels are
\* class indices, or -1 (the ignore sentinel).
RowsData(base, N, C) ==
    [k \in 1 .. N * C |->
        base[((((k - 1) % C) + ((k - 1) \div C)) % C) + 1]]

ShiftShapes(C) ==
    {<<n, C>> : n \in 1 .. MaxRows}
    \cup {<<bl[1], bl[2], C>> :
            bl \in {x \in (1 .. MaxRows) \X (1 .. MaxRows) : x[1] * x[2] <= MaxRows}}
    \cup {<<C>>}

ShiftRowsOf(shape) == IF Len(shape) = 1 THEN 1 ELSE Prod(shape) \div shape[Len(shape)]

PsIdle ==
    /\ ps_heap = Idle /\ ps_tensor = Idle /\ ps_labels = Idle
    /\ ps_result = Idle /\ ps_orig = Idle /\ ps_pc = Idle

PsInit ==
    /\ \E C \in 1 .. MaxShiftClasses :
         \E shape \in ShiftShapes(C), base \in [1 .. C -> 0 .. MaxVal] :
            /\ ps_tensor = [storage |-> "arg", shape |-> shape]
            /\ ps_heap = [arg |-> RowsData(base, ShiftRowsOf(shape), C), tmp |-> <<>>]
            /\ ps_labels \in [1 .. ShiftRowsOf(shape) -> -1 .. C - 1]
    /\ ps_orig = ps_heap.arg
    /\ ps_result = Idle
    /\ ps_pc = "call"

ProbabilityShift ==
    /\ ps_pc = "call"
    /\ \E r \in {probability_shift_(ps_heap, ps_tensor, ps_labels)} :
           /\ ps_heap' = r.heap
           /\ ps_result' = [status |-> r.status, ret |-> r.ret]
    /\ ps_pc' = "done"
    /\ UNCHANGED <<ps_tensor, ps_labels, ps_orig>>
    /\ UNCHANGED <<ctx_vars, sel_vars, pa_vars, cm_vars>>

PsC == ps_tensor.shape[Len(ps_tensor.shape)]
PsN == Len(ps_labels)
OrigAt(r, c) == At(ps_orig, PsC, r, c)
\* the caller's tensor and the returned tensor, read through their storages
ArgAt(r, c) == At(ps_heap[ps_tensor.storage], PsC, r, c)
RetAt(r, c) == At(ps_heap[ps_result.ret.storage], PsC, r, c)

\* the classes at which original row r attains its maximum
MaxCols(r) == {a \in 0 .. PsC - 1 : \A c \in 0 .. PsC - 1 : OrigAt(r, a) >= OrigAt(r, c)}

\* C6: for a rank-2 tensor and labels within 0 .. classes-1, the call
\* rewrites the caller's tensor in place and returns it; in every row r, with
\* a the argmax of the original row: new[r, label] = old[r, a],
\* new[r, a] = old[r, label], every other entry of the row unchanged.
Thm_C6 ==
    (/\ ps_pc = "done"
     /\ Len(ps_tensor.shape) = 2
     /\ \A r \in 1 .. PsN : ps_labels[r] \in 0 .. PsC - 1)
        => /\ ps_result.status = "ok"
           /\ ps_result.ret = ps_tensor
           /\ \A r \in 1 .. PsN :
                \E a \in MaxCols(r) :
                   LET l == ps_labels[r]
                   IN  /\ ArgAt(r, l) = OrigAt(r, a)
                       /\ ArgAt(r, a) = OrigAt(r, l)
                       /\ \A c \in (0 .. PsC - 1) \ {a, l} : ArgAt(r, c) = OrigAt(r, c)

Wit_C6 ==
    /\ ps_pc = "done" /\ ps_tensor.shape = <<2, 3>>
    /\ ps_orig = <<0, 2, 1, 2, 1, 0>>
    /\ ps_labels = <<0, 2>>
    /\ ps_heap.arg = <<2, 0, 1, 0, 1, 2>>

\* C7: for a rank-3 tensor the call returns a tensor of the original shape in
\* which every position with a negative label holds its original class
\* vector and every position with a non-negative label has the values at its
\* argmax class and its label class exchanged, all else unchanged.
Thm_C7 ==
    (ps_pc = "done" /\ Len(ps_tensor.shape) = 3)
        => /\ ps_result.status = "ok"
           /\ ps_result.ret.shape = ps_tensor.shape
           /\ \A r \in 1 .. PsN :
                IF ps_labels[r] < 0
                THEN \A c \in 0 .. PsC - 1 : RetAt(r, c) = OrigAt(r, c)
                ELSE \E a \in MaxCols(r) :
                        LET l == ps_labels[r]
                        IN  /\ RetAt(r, l) = OrigAt(r, a)
                            /\ RetAt(r, a) = OrigAt(r, l)
                            /\ \A c \in (0 .. PsC - 1) \ {a, l} :
                                  RetAt(r, c) = OrigAt(r, c)

Wit_C7 ==
    /\ ps_pc = "done" /\ ps_tensor.shape = <<1, 2, 3>>
    /\ ps_orig = <<0, 2, 1, 2, 1, 0>>
    /\ ps_labels = <<-1, 1>>
    /\ ps_heap[ps_result.ret.storage] = <<0, 2, 1, 1, 2, 0>>

(***************************************************************************)
(* post_adaptor                                                            *)
(* A value is [kind, id, items]: a tensor (kind "tensor", no items), or a  *)
(* list or tuple of values.  A mapping is a function from the keys present *)
(* to values; mapping objects live on pa_heap.                             *)
(***************************************************************************)
MaxItems == 2
MaxCalls == 2

TensorVal(i) == [kind |-> "tensor", id |-> i, items |-> <<>>]
ListVal(items) == [kind |-> "list", id |-> 0, items |-> items]
TupleVal(items) == [kind |-> "tuple", id |-> 0, items |-> items]

\* isinstance(v, (list, tuple))
IsListLike(v) == v.kind \in {"list", "tuple"}

\* one `if key in dict_object: ...` block
\* faulty variant: wraps without the isinstance test
NormalizeAlwaysWrap(d, key) ==
    IF key \in DOMAIN d THEN [d EXCEPT ![key] = ListVal(<<d[key]>>)] ELSE d
Normalize(d, key) ==
    IF key \in DOMAIN d
    THEN IF ~IsListLike(d[key]) THEN [d EXCEPT ![key] = ListVal(<<d[key]>>)] ELSE d
    ELSE d

NormalizedKeys == {"logits", "logits_mask", "losses", "labels"}

\* returns [heap after the call, returned object]
post_adaptor(heap, dict_object) ==
    LET d1 == Normalize(heap[dict_object], "logits")
        d2 == Normalize(d1, "logits_mask")
        d3 == Normalize(d2, "losses")
        d4 == Normalize(d3, "labels")
    IN  [heap |-> [heap EXCEPT ![dict_object] = d4], ret |-> dict_object]

\* Inputs: a bare tensor, or a list or tuple of 0 .. MaxItems tensors.
Tensors(n) == [i \in 1 .. n |-> TensorVal(i)]

InputValues ==
    {TensorVal(1)}
    \cup {ListVal(Tensors(n)) : n \in 0 .. MaxItems}
    \cup {TupleVal(Tensors(n)) : n \in 0 .. MaxItems}

OtherValues == {TensorVal(1), TupleVal(Tensors(1))}

Mappings ==
    UNION {[K -> InputValues] : K \in SUBSET NormalizedKeys}

\* the keys post_adaptor does not normalise
Others ==
    {[k \in K |-> IF k = "hidden" THEN h ELSE TensorVal(2)] :
        K \in SUBSET {"hidden", "attention"}, h \in OtherValues}

\* m extended with the keys of o (disjoint domains)
Merge(m, o) ==
    [k \in DOMAIN m \cup DOMAIN o |-> IF k \in DOMAIN m THEN m[k] ELSE o[k]]

PaInit ==
    /\ \E m \in Mappings, o \in Others :
          pa_heap = [arg |-> Merge(m, o), tmp |-> <<>>]
    /\ pa_ret = Idle
    /\ pa_prev = pa_heap.arg
    /\ pa_calls = 0
    /\ pa_pc = "ready"

\* a call post_adaptor(d) on the caller's mapping object
PostAdaptor ==
    /\ pa_pc = "ready"
    /\ pa_calls < MaxCalls
    /\ \E r \in {post_adaptor(pa_heap, "arg")} :
           /\ pa_heap' = r.heap
           /\ pa_ret' = r.ret
    /\ pa_prev' = pa_heap.arg
    /\ pa_calls' = pa_calls + 1
    /\ UNCHANGED pa_pc
    /\ UNCHANGED <<ctx_vars, sel_vars, ps_vars, cm_vars>>

\* C8: post_adaptor(d) returns the same mapping; each present key among
\* logits, logits_mask, losses, labels holds a one-element list of the
\* original value when that was not a list or tuple and the original value
\* otherwise; absent keys stay absent, other keys keep their value, and a
\* second application changes nothing.
Thm_C8 ==
    (pa_pc = "ready" /\ pa_calls >= 1)
        => /\ pa_ret = "arg"
           /\ DOMAIN pa_heap[pa_ret] = DOMAIN pa_prev
           /\ \A k \in DOMAIN pa_prev :
                 pa_heap[pa_ret][k] =
                    IF k \in NormalizedKeys /\ pa_prev[k].kind \notin {"list", "tuple"}
                    THEN [kind |-> "list", id |-> 0, items |-> <<pa_prev[k]>>]
                    ELSE pa_prev[k]
           /\ pa_calls >= 2 => pa_heap[pa_ret] = pa_prev

Wit_C8 ==
    /\ pa_calls = 2
    /\ DOMAIN pa_heap.arg = {"logits", "labels", "hidden"}
    /\ pa_heap.arg["logits"] = ListVal(<<TensorVal(1)>>)
    /\ pa_heap.arg["labels"] = TupleVal(<<TensorVal(1), TensorVal(2)>>)
    /\ pa_heap.arg["hidden"] = TensorVal(1)
    /\ pa_prev = pa_heap.arg

(***************************************************************************)
(* CustomMatch                                                             *)
(* A value is [base, depth]: `base` enclosed in `depth` one-element        *)
(* tuples.  A descriptor and the mapping of to_dict are records of the six *)
(* fields.                                                                 *)
(***************************************************************************)
MaxTrips == 2

Plain(b) == [base |-> b, depth |-> 0]
\* the expression `v,`
OneTuple(v) == [v EXCEPT !.depth = @ + 1]

NoneVal == Plain("None")

\* CustomMatch.__init__
CustomMatch_init(module_T, module_S, weight, loss, proj_func, proj_group) ==
    [module_T |-> module_T,
     module_S |-> module_S,
     loss |-> OneTuple(loss),
     weight |-> OneTuple(weight),
     proj_func |-> proj_func,
     proj_group |-> IF proj_group = NoneVal THEN Plain("{}") ELSE proj_group]

to_dict(self) ==
    [module_T |-> self.module_T,
     module_S |-> self.module_S,
     weight |-> self.weight,
     loss |-> self.loss,
     proj_func |-> self.proj_func,
     proj_group |-> self.proj_group]

\* cls(**dict_object)
from_dict(dict_object) ==
    CustomMatch_init(dict_object.module_T, dict_object.module_S,
                     dict_object.weight, dict_object.loss,
                     dict_object.proj_func, dict_object.proj_group)

CmInit ==
    /\ \E mT \in {"teacher.layer6", "teacher.layer12"}, mS \in {"student.layer3"},
          w \in {"0.5", "1"}, l \in {"hid_mse", "cos"},
          pf \in {"None", "linear"}, pg \in {"None", "{}", "{lr: 0.1}"} :
            cm_obj = CustomMatch_init(Plain(mT), Plain(mS), Plain(w), Plain(l),
                                      Plain(pf), Plain(pg))
    /\ cm_first = cm_obj
    /\ cm_dict = Idle
    /\ cm_trips = 0
    /\ cm_pc = "descriptor"

ToDict ==
    /\ cm_pc = "descriptor"
    /\ cm_trips < MaxTrips
    /\ cm_dict' = to_dict(cm_obj)
    /\ cm_pc' = "mapping"
    /\ UNCHANGED <<cm_obj, cm_first, cm_trips>>
    /\ UNCHANGED <<ctx_vars, sel_vars, ps_vars, pa_vars>>

FromDict ==
    /\ cm_pc = "mapping"
    /\ cm_obj' = from_dict(cm_dict)
    /\ cm_trips' = cm_trips + 1
    /\ cm_pc' = "descriptor"
    /\ UNCHANGED <<cm_first, cm_dict>>
    /\ UNCHANGED <<ctx_vars, sel_vars, ps_vars, pa_vars>>

\* C9: for every descriptor m, from_dict(m.to_dict()) has the six fields of
\* m and the same to_dict, after any number of round trips.
Cex_C9 ==
    (cm_pc = "descriptor" /\ cm_trips >= 1)
        => /\ cm_obj = cm_first
           /\ to_dict(cm_obj) = to_dict(cm_first)

(***************************************************************************)
(* Specifications                                                          *)
(***************************************************************************)
CtxNext == Enter \/ BodyReturns \/ BodyRaises \/ Exit

SelNext == SelectLogits

PsNext == ProbabilityShift

PaNext == PostAdaptor

CmNext == ToDict \/ FromDict

PaIdle ==
    /\ pa_heap = Idle /\ pa_ret = Idle /\ pa_prev = Idle
    /\ pa_calls = Idle /\ pa_pc = Idle

CmIdle ==
    /\ cm_obj = Idle /\ cm_first = Idle /\ cm_dict = Idle
    /\ cm_trips = Idle /\ cm_pc = Idle

InitCtx == CtxInit /\ SelIdle /\ PsIdle /\ PaIdle /\ CmIdle
InitSel == CtxIdle /\ SelInit /\ PsIdle /\ PaIdle /\ CmIdle
InitShift == CtxIdle /\ SelIdle /\ PsInit /\ PaIdle /\ CmIdle
InitAdaptor == CtxIdle /\ SelIdle /\ PsIdle /\ PaInit /\ CmIdle
InitMatch == CtxIdle /\ SelIdle /\ PsIdle /\ PaIdle /\ CmInit

SpecCtx == InitCtx /\ [][CtxNext]_vars

SpecSel == InitSel /\ [][SelNext]_vars

SpecShift == InitShift /\ [][PsNext]_vars

SpecAdaptor == InitAdaptor /\ [][PaNext]_vars

SpecMatch == InitMatch /\ [][CmNext]_vars

\* every component, one of them active
Init == InitCtx \/ InitSel \/ InitShift \/ InitAdaptor \/ InitMatch

Next == CtxNext \/ SelNext \/ PsNext \/ PaNext \/ CmNext

Spec == Init /\ [][Next]_vars

====
